---- MODULE Spec2Model ----
(***************************************************************************)
(* Bank statement analyzer: app/parser.py (parse_hdfc_pdf) and app/main.py  *)
(* (process_statement, generate_summary, generate_monthly_summary,         *)
(* generate_loan_readiness).                                               *)
(*                                                                         *)
(* Text is a sequence of one-character strings.  Money is an integer       *)
(* number of paise (1/100 rupee); the words of the model carry at most two *)
(* fractional digits, so every amount the parser yields is a whole number  *)
(* of paise and sums are exact.  Means are kept as numerator/denominator   *)
(* and compared by cross-multiplication.                                   *)
(***************************************************************************)
EXTENDS Integers, Sequences, FiniteSets, TLC

VARIABLES
    pc,            \* position of the request: "parsing", "parsed", "failed", "done"
    nrows,         \* rows of the token stream consumed by parse_hdfc_pdf so far
    transactions,  \* parser.py:10  the list the parser appends to
    raised,        \* <<>> or <<[status_code, detail]>>: the HTTPException raised
    result,        \* <<>> or <<the tuple process_statement returns>>
    rpc,           \* position inside the body of the row loop (parser.py:23-86)
    row_words,     \* parser.py:26  the row under classification, sorted by x0
    wi,            \* index of the next word of the inner loop (parser.py:49)
    bands,         \* the six band strings being built (parser.py:42-47)
    assigned,      \* per word of the row: the bands the loop appended it to
    row_out,       \* <<>> or <<the dict appended at parser.py:75>>
    sc_in,         \* the two inputs handed to generate_loan_readiness
    sc_out         \* per input: <<>> or <<the scorer's output>>

vars == <<pc, nrows, transactions, raised, result,
          rpc, row_words, wi, bands, assigned, row_out, sc_in, sc_out>>

pipeVars  == <<pc, nrows, transactions, raised, result>>
rowVars   == <<rpc, row_words, wi, bands, assigned, row_out>>
scoreVars == <<sc_in, sc_out>>

-----------------------------------------------------------------------------
(* Bounds of the model *)

MaxRows == 2        \* rows of the token stream one request consumes
MaxRowWords == 3    \* words of one row in the row-level specification
MaxMonths == 2      \* buckets of a monthly summary handed to the scorer

-----------------------------------------------------------------------------
(* Text helpers (Python str operations used by the parser) *)

DigitChars == {"0", "1", "2", "3", "4", "5", "6", "7", "8", "9"}

DigitVal(c) ==
    CASE c = "0" -> 0 [] c = "1" -> 1 [] c = "2" -> 2 [] c = "3" -> 3
      [] c = "4" -> 4 [] c = "5" -> 5 [] c = "6" -> 6 [] c = "7" -> 7
      [] c = "8" -> 8 [] c = "9" -> 9

\* sub in s
Contains(s, sub) ==
    \E i \in 1..(Len(s) - Len(sub) + 1) : SubSeq(s, i, i + Len(sub) - 1) = sub

\* s.strip()
RECURSIVE Strip(_)
Strip(s) ==
    IF s = <<>> THEN s
    ELSE IF Head(s) = " " THEN Strip(Tail(s))
    ELSE IF s[Len(s)] = " " THEN Strip(SubSeq(s, 1, Len(s) - 1))
    ELSE s

\* s.replace(",", "")
RemoveCommas(s) == SelectSeq(s, LAMBDA c : c # ",")

\* " ".join([w["text"] for w in row_words])
RECURSIVE FullRow(_)
FullRow(ws) ==
    IF ws = <<>> THEN <<>>
    ELSE IF Len(ws) = 1 THEN ws[1].text
    ELSE ws[1].text \o <<" ">> \o FullRow(Tail(ws))

\* value of a string of decimal digits
RECURSIVE DigitsValue(_)
DigitsValue(s) ==
    IF s = <<>> THEN 0
    ELSE 10 * DigitsValue(SubSeq(s, 1, Len(s) - 1)) + DigitVal(s[Len(s)])

AllDigits(s) == \A i \in 1..Len(s) : s[i] \in DigitChars

\* position of the first c in s, 0 when absent
FirstIndex(s, c) ==
    IF \E i \in 1..Len(s) : s[i] = c
    THEN CHOOSE i \in 1..Len(s) : s[i] = c /\ \A j \in 1..(i - 1) : s[j] # c
    ELSE 0

ValueError == [error |-> "ValueError"]

\* float(s) for s already stripped, in paise.  Covers the decimal literals
\* [+-]digits[.digits] of a statement's amount columns, with at most two
\* fractional digits; every other text of the model raises ValueError.
UnsignedPaise(s) ==
    LET dot == FirstIndex(s, ".")
        ip  == IF dot = 0 THEN s ELSE SubSeq(s, 1, dot - 1)
        fp  == IF dot = 0 THEN <<>> ELSE SubSeq(s, dot + 1, Len(s))
    IN  IF /\ AllDigits(ip) /\ AllDigits(fp)
           /\ Len(ip) + Len(fp) > 0
           /\ Len(fp) <= 2
        THEN [error |-> "",
              value |-> 100 * DigitsValue(ip)
                        + (IF Len(fp) = 0 THEN 0
                           ELSE IF Len(fp) = 1 THEN 10 * DigitsValue(fp)
                           ELSE DigitsValue(fp))]
        ELSE ValueError

ParseFloat(s) ==
    IF s = <<>> THEN ValueError
    ELSE IF Head(s) = "-"
         THEN LET u == UnsignedPaise(Tail(s))
              IN  IF u.error = "" THEN [error |-> "", value |-> 0 - u.value] ELSE u
    ELSE IF Head(s) = "+" THEN UnsignedPaise(Tail(s))
    ELSE UnsignedPaise(s)

-----------------------------------------------------------------------------
(* datetime.strptime(first_word, "%d/%m/%y") *)

IsLeap(y) == (y % 4 = 0 /\ y % 100 # 0) \/ y % 400 = 0

DaysInMonth(y, m) ==
    IF m \in {4, 6, 9, 11} THEN 30
    ELSE IF m = 2 THEN (IF IsLeap(y) THEN 29 ELSE 28)
    ELSE 31

\* %d and %m take one or two digits, %y exactly two; years 00-68 are 20xx and
\* 69-99 are 19xx; a day the month does not have raises ValueError.
Strptime(s) ==
    LET s1   == FirstIndex(s, "/")
        rest == IF s1 = 0 THEN <<>> ELSE SubSeq(s, s1 + 1, Len(s))
        s2   == FirstIndex(rest, "/")
        dd   == IF s1 = 0 THEN <<>> ELSE SubSeq(s, 1, s1 - 1)
        mm   == IF s2 = 0 THEN <<>> ELSE SubSeq(rest, 1, s2 - 1)
        yy   == IF s2 = 0 THEN <<>> ELSE SubSeq(rest, s2 + 1, Len(rest))
        d    == DigitsValue(dd)
        m    == DigitsValue(mm)
        y    == IF DigitsValue(yy) <= 68 THEN 2000 + DigitsValue(yy)
                ELSE 1900 + DigitsValue(yy)
    IN  IF /\ s1 # 0 /\ s2 # 0
           /\ AllDigits(dd) /\ AllDigits(mm) /\ AllDigits(yy)
           /\ Len(dd) \in {1, 2} /\ Len(mm) \in {1, 2} /\ Len(yy) = 2
           /\ m \in 1..12 /\ d >= 1 /\ d <= DaysInMonth(y, m)
        THEN [error |-> "", year |-> y, month |-> m, day |-> d]
        ELSE ValueError

-----------------------------------------------------------------------------
(* Words and rows.  A word is [text, x0]: pdfplumber's "text" and left edge *)

\* sorted(row_words, key=lambda x: x["x0"]): Python's sort is stable
RECURSIVE InsertByX0(_, _)
InsertByX0(sorted, w) ==
    IF sorted = <<>> THEN <<w>>
    ELSE IF sorted[Len(sorted)].x0 <= w.x0 THEN Append(sorted, w)
    ELSE Append(InsertByX0(SubSeq(sorted, 1, Len(sorted) - 1), w),
                sorted[Len(sorted)])

RECURSIVE SortByX0(_)
SortByX0(ws) ==
    IF ws = <<>> THEN <<>>
    ELSE InsertByX0(SortByX0(SubSeq(ws, 1, Len(ws) - 1)), ws[Len(ws)])

\* parser.py:31  "Date" in full_row and "Narration" in full_row
IsHeaderRow(ws) ==
    /\ Contains(FullRow(ws), <<"D", "a", "t", "e">>)
    /\ Contains(FullRow(ws), <<"N", "a", "r", "r", "a", "t", "i", "o", "n">>)

MinDateLen == 8

\* parser.py:37  "/" in first_word and len(first_word) >= 8
LooksLikeDate(first_word) ==
    Contains(first_word, <<"/">>) /\ Len(first_word) >= MinDateLen

-----------------------------------------------------------------------------
(* Column bands (parser.py:53-69) *)

NarrationLeft == 60
RefNoLeft == 250
ValueDateLeft == 330
WithdrawalLeft == 390
DepositLeft == 470
BalanceLeft == 550

BandNames == {"narration", "ref_no", "value_date", "withdrawal", "deposit", "balance"}

EmptyBands == [f \in BandNames |-> <<>>]

\* BandOf with the narration band closed on the left (60 <= x): the variant
\* the amended C8 tells apart from the code
BandOfInclusive(x) ==
    IF NarrationLeft <= x /\ x < RefNoLeft THEN "narration"
    ELSE IF RefNoLeft <= x /\ x < ValueDateLeft THEN "ref_no"
    ELSE IF ValueDateLeft <= x /\ x < WithdrawalLeft THEN "value_date"
    ELSE IF WithdrawalLeft <= x /\ x < DepositLeft THEN "withdrawal"
    ELSE IF DepositLeft <= x /\ x < BalanceLeft THEN "deposit"
    ELSE IF x >= BalanceLeft THEN "balance"
    ELSE "none"

\* the if/elif chain on x = w["x0"]; "none" when no branch is taken
BandOf(x) ==
    IF NarrationLeft < x /\ x < RefNoLeft THEN "narration"
    ELSE IF RefNoLeft <= x /\ x < ValueDateLeft THEN "ref_no"
    ELSE IF ValueDateLeft <= x /\ x < WithdrawalLeft THEN "value_date"
    ELSE IF WithdrawalLeft <= x /\ x < DepositLeft THEN "withdrawal"
    ELSE IF DepositLeft <= x /\ x < BalanceLeft THEN "deposit"
    ELSE IF x >= BalanceLeft THEN "balance"
    ELSE "none"

\* one iteration of the loop at parser.py:49:  band += w["text"] + " "
ClassifyWord(b, w) ==
    [f \in BandNames |->
        IF f = BandOf(w.x0) THEN b[f] \o w.text \o <<" ">> ELSE b[f]]

RECURSIVE ClassifyRow(_, _)
ClassifyRow(b, ws) ==
    IF ws = <<>> THEN b ELSE ClassifyRow(ClassifyWord(b, Head(ws)), Tail(ws))

\* parser.py:71-73  float(band.replace(",", "").strip()) if band.strip() else 0.0
BandAmount(text) ==
    IF Strip(text) # <<>> THEN ParseFloat(Strip(RemoveCommas(text)))
    ELSE [error |-> "", value |-> 0]

\* parser.py:71-86: <<the dict appended>>, or <<>> when a float() raised and
\* the bare except dropped the row
BuildTransaction(date, b) ==
    LET withdrawal == BandAmount(b["withdrawal"])
        deposit    == BandAmount(b["deposit"])
        balance    == BandAmount(b["balance"])
    IN  IF withdrawal.error # "" \/ deposit.error # "" \/ balance.error # ""
        THEN <<>>
        ELSE << [date       |-> [year |-> date.year, month |-> date.month,
                                 day |-> date.day],
                 narration  |-> Strip(b["narration"]),
                 ref_no     |-> Strip(b["ref_no"]),
                 value_date |-> Strip(b["value_date"]),
                 debit      |-> withdrawal.value,
                 credit     |-> deposit.value,
                 balance    |-> balance.value] >>

\* parser.py:23-86, the body of the row loop for one row: the transactions
\* it appends (none or one)
ParseRowWords(ws) ==
    LET sorted == SortByX0(ws)
        date   == Strptime(sorted[1].text)
    IN  IF IsHeaderRow(sorted) THEN <<>>
        ELSE IF ~LooksLikeDate(sorted[1].text) THEN <<>>
        ELSE IF date.error # "" THEN <<>>
        ELSE BuildTransaction(date, ClassifyRow(EmptyBands, sorted))

-----------------------------------------------------------------------------
(* Arithmetic helpers *)

\* round(num/den, 2) on an amount in paise: nearest whole paisa, ties to even
Round2(num, den) ==
    LET q == num \div den
        r == num % den
    IN  IF 2 * r < den THEN q
        ELSE IF 2 * r > den THEN q + 1
        ELSE IF q % 2 = 0 THEN q ELSE q + 1

RECURSIVE SumField(_, _)
SumField(rows, f) ==
    IF rows = <<>> THEN 0 ELSE Head(rows)[f] + SumField(Tail(rows), f)

RECURSIVE SumSquares(_, _)
SumSquares(rows, f) ==
    IF rows = <<>> THEN 0
    ELSE Head(rows)[f] * Head(rows)[f] + SumSquares(Tail(rows), f)

DateKey(d) == d.year * 10000 + d.month * 100 + d.day
MonthKey(d) == d.year * 100 + d.month

-----------------------------------------------------------------------------
(* main.py:129  df.sort_values(["date"]).reset_index(drop=True)             *)
(*                                                                         *)
(* One sort key and no kind= argument: pandas sorts with its default kind, *)
(* "quicksort", which it documents as not stable (only "mergesort" and      *)
(* "stable" are).  The order of rows with equal dates is therefore any     *)
(* order the build's sort produces: every permutation that leaves the dates *)
(* ascending is an outcome.                                                *)

IndexPermutations(n) ==
    {p \in [1..n -> 1..n] : \A i, j \in 1..n : i # j => p[i] # p[j]}

SortValuesOutcomes(txns) ==
    {p \in IndexPermutations(Len(txns)) :
        \A i \in 1..(Len(txns) - 1) :
            DateKey(txns[p[i]].date) <= DateKey(txns[p[i + 1]].date)}

Reindex(txns, p) == [i \in 1..Len(txns) |-> txns[p[i]]]

-----------------------------------------------------------------------------
(* main.py:27-41  generate_summary *)

\* df.groupby(df["date"].dt.date).last()["balance"]: per calendar day, the
\* balance of the last row of df carrying that day
DailyLastBalance(df, day) ==
    LET last == CHOOSE i \in 1..Len(df) :
                    /\ DateKey(df[i].date) = day
                    /\ \A j \in (i + 1)..Len(df) : DateKey(df[j].date) # day
    IN  df[last].balance

Days(df) == {DateKey(df[i].date) : i \in 1..Len(df)}

RECURSIVE SumDailyLast(_, _)
SumDailyLast(df, days) ==
    IF days = {} THEN 0
    ELSE LET k == CHOOSE x \in days : TRUE
         IN  DailyLastBalance(df, k) + SumDailyLast(df, days \ {k})

generate_summary(df) ==
    LET total_income  == SumField(df, "credit")
        total_expense == SumField(df, "debit")
        net_flow      == total_income - total_expense
    IN  [total_income  |-> Round2(total_income, 1),
         total_expense |-> Round2(total_expense, 1),
         net_flow      |-> Round2(net_flow, 1),
         avg_balance   |-> Round2(SumDailyLast(df, Days(df)),
                                  Cardinality(Days(df)))]

-----------------------------------------------------------------------------
(* main.py:44-52  generate_monthly_summary *)

Months(df) == {MonthKey(df[i].date) : i \in 1..Len(df)}

MonthRows(df, m) == SelectSeq(df, LAMBDA t : MonthKey(t.date) = m)

\* MonthBucket aggregating with "last" instead of "sum": the variant C3
\* tells apart from the code
MonthBucketLast(df, m) ==
    LET rows   == MonthRows(df, m)
        credit == rows[Len(rows)].credit
        debit  == rows[Len(rows)].debit
    IN  [month |-> m, credit |-> credit, debit |-> debit, net |-> credit - debit]

\* one row of df.groupby("month").agg({"credit": "sum", "debit": "sum"})
MonthBucket(df, m) ==
    LET credit == SumField(MonthRows(df, m), "credit")
        debit  == SumField(MonthRows(df, m), "debit")
    IN  [month |-> m, credit |-> credit, debit |-> debit, net |-> credit - debit]

\* groupby sorts the group keys: buckets in ascending month
RECURSIVE BucketsOf(_, _)
BucketsOf(df, ms) ==
    IF ms = {} THEN <<>>
    ELSE LET m == CHOOSE x \in ms : \A y \in ms : x <= y
         IN  <<MonthBucket(df, m)>> \o BucketsOf(df, ms \ {m})

generate_monthly_summary(df) == BucketsOf(df, Months(df))

-----------------------------------------------------------------------------
(* main.py:60-113  generate_loan_readiness                                  *)
(* n = months, I = sum of bucket credit, E = sum of bucket debit, so        *)
(* avg_income = I/n and avg_expense = E/n (both 0 when n = 0).             *)

\* SurplusScore with the first comparison inverted (surplus < avg_income *
\* 0.25): the variant the amended C6 tells apart from the code
SurplusScoreInverted(monthly_summary) ==
    LET n == Len(monthly_summary)
        I == SumField(monthly_summary, "credit")
        E == SumField(monthly_summary, "debit")
    IN  IF n > 0 /\ 4 * (I - E) < I THEN 40
        ELSE IF n > 0 /\ I - E > 0 THEN 25
        ELSE 5

\* main.py:69-74
SurplusScore(monthly_summary) ==
    LET n == Len(monthly_summary)
        I == SumField(monthly_summary, "credit")
        E == SumField(monthly_summary, "debit")
    IN  IF n > 0 /\ 4 * (I - E) > I THEN 40      \* surplus > avg_income * 0.25
        ELSE IF n > 0 /\ I - E > 0 THEN 25       \* surplus > 0
        ELSE 5

\* IncomeVariationBelow with the population deviation (ddof = 0), which is 0
\* and not NaN for a single bucket: the variant C10 tells apart from the code
IncomeVariationBelowPopulation(monthly_summary, k) ==
    LET n == Len(monthly_summary)
        I == SumField(monthly_summary, "credit")
        Q == n * SumSquares(monthly_summary, "credit") - I * I
    IN  IF n = 0 \/ I = 0 THEN FALSE
        ELSE IF I < 0 THEN TRUE
        ELSE k * k * Q < I * I

\* main.py:77 with the comparison of 79/81:  variation < 1/k.
\* variation is 1 when avg_income is 0; otherwise credit.std() / avg_income,
\* where pandas' std is the sample deviation (ddof = 1): NaN for a single
\* bucket, and a comparison with NaN is False.  For n >= 2 and
\* Q = n*sum(x^2) - (sum x)^2 :  std^2 = Q / (n(n-1)),  avg^2 = I^2 / n^2.
IncomeVariationBelow(monthly_summary, k) ==
    LET n == Len(monthly_summary)
        I == SumField(monthly_summary, "credit")
        Q == n * SumSquares(monthly_summary, "credit") - I * I
    IN  IF n = 0 \/ I = 0 THEN FALSE
        ELSE IF n < 2 THEN FALSE
        ELSE IF I < 0 THEN TRUE
        ELSE k * k * n * Q < I * I * (n - 1)

\* main.py:79-84
StabilityScore(monthly_summary) ==
    IF IncomeVariationBelow(monthly_summary, 4) THEN 30
    ELSE IF IncomeVariationBelow(monthly_summary, 2) THEN 15
    ELSE 5

\* main.py:87-94
BalanceScore(summary, monthly_summary) ==
    LET n == Len(monthly_summary)
        E == SumField(monthly_summary, "debit")
        closing_balance == summary.closing_balance
    IN  IF n = 0
        THEN (IF closing_balance > 0 THEN 30 ELSE 5)
        ELSE IF closing_balance * n > E THEN 30          \* > avg_expense
        ELSE IF 2 * closing_balance * n > E THEN 15      \* > avg_expense * 0.5
        ELSE 5

\* Rating with exclusive thresholds (>): the variant C7 tells apart from the
\* code
RatingExclusive(total_score) ==
    IF total_score > 80 THEN "Strong"
    ELSE IF total_score > 60 THEN "Moderate"
    ELSE IF total_score > 40 THEN "Risky"
    ELSE "High Risk"

\* main.py:98-105
Rating(total_score) ==
    IF total_score >= 80 THEN "Strong"
    ELSE IF total_score >= 60 THEN "Moderate"
    ELSE IF total_score >= 40 THEN "Risky"
    ELSE "High Risk"

\* main.py:96
TotalScore(surplus_score, stability_score, balance_score) ==
    surplus_score + stability_score + balance_score

\* The dict returned at main.py:107-113, with the three sub-scores (locals of
\* the function) kept beside it.
generate_loan_readiness(summary, monthly_summary) ==
    LET n == Len(monthly_summary)
        I == SumField(monthly_summary, "credit")
        E == SumField(monthly_summary, "debit")
        surplus_score   == SurplusScore(monthly_summary)
        stability_score == StabilityScore(monthly_summary)
        balance_score   == BalanceScore(summary, monthly_summary)
        total_score     == TotalScore(surplus_score, stability_score, balance_score)
    IN  [loan_score          |-> total_score,
         rating              |-> Rating(total_score),
         avg_monthly_income  |-> IF n = 0 THEN 0 ELSE Round2(I, n),
         avg_monthly_expense |-> IF n = 0 THEN 0 ELSE Round2(E, n),
         monthly_surplus     |-> IF n = 0 THEN 0 ELSE Round2(I - E, n),
         surplus_score       |-> surplus_score,
         stability_score     |-> stability_score,
         balance_score       |-> balance_score]

-----------------------------------------------------------------------------
(* main.py:121-154  process_statement *)

\* DfEmpty as a test for a missing frame (df is None), which the parser never
\* returns: the variant C1 tells apart from the code
DfIsNone(df) == FALSE

\* main.py:126  df.empty
DfEmpty(df) == Len(df) = 0

\* OpeningBalance with the signs of the two branches exchanged: the variant C2
\* tells apart from the code
OpeningBalanceSignsExchanged(first) ==
    IF first.credit > 0 THEN first.balance + first.credit
    ELSE first.balance - first.debit

\* main.py:135-142
OpeningBalance(first) ==
    IF first.credit > 0 THEN first.balance - first.credit
    ELSE first.balance + first.debit

\* main.py:144
ClosingBalance(df) == df[Len(df)].balance

NoTransactionsDetected == [status_code |-> 400, detail |-> "No transactions detected."]
IndexErrorRaised == [status_code |-> 500, detail |-> "IndexError"]

\* main.py:129-154 on the frame sorted with indexer p.  df.iloc[0] on a frame
\* without rows raises IndexError.
Derive(txns, p) ==
    LET df      == Reindex(txns, p)
        monthly == generate_monthly_summary(df)
        summary == generate_summary(df)
        full    == [total_income    |-> summary.total_income,
                    total_expense   |-> summary.total_expense,
                    net_flow        |-> summary.net_flow,
                    avg_balance     |-> summary.avg_balance,
                    opening_balance |-> Round2(OpeningBalance(df[1]), 1),
                    closing_balance |-> Round2(ClosingBalance(df), 1)]
    IN  [df              |-> df,
         indexer         |-> p,
         summary         |-> full,
         monthly_summary |-> monthly,
         loan_metrics    |-> generate_loan_readiness(full, monthly)]

-----------------------------------------------------------------------------
(* Inputs: the words pdfplumber can hand to the parser *)

Txt0501 == <<"0", "5", "/", "0", "1", "/", "2", "4">>      \* 05/01/24
Txt2001 == <<"2", "0", "/", "0", "1", "/", "2", "4">>      \* 20/01/24
Txt2002 == <<"2", "0", "/", "0", "2", "/", "2", "4">>      \* 20/02/24
Txt3102 == <<"3", "1", "/", "0", "2", "/", "2", "4">>      \* 31/02/24, no such day
TxtShort == <<"5", "/", "1", "/", "2", "4">>               \* 5/1/24
TxtDate == <<"D", "a", "t", "e">>
TxtNarration == <<"N", "a", "r", "r", "a", "t", "i", "o", "n">>
TxtUPI == <<"U", "P", "I">>
Txt2 == <<"2", ".", "0", "0">>                             \* 2.00
Txt10 == <<"1", "0", ".", "0", "0">>                       \* 10.00
Txt4800 == <<"4", ",", "8", "0", "0", ".", "0", "0">>      \* 4,800.00

Word(text, x0) == [text |-> text, x0 |-> x0]

\* Words of a statement page: a leading word of the date column, the header
\* words, and one word in each of the narration, withdrawal, deposit and
\* balance columns.
PageWords ==
    {Word(Txt0501, 30), Word(Txt2001, 30), Word(Txt2002, 30),
     Word(Txt3102, 30), Word(TxtShort, 30),
     Word(TxtDate, 30), Word(TxtNarration, 60), Word(TxtUPI, 65),
     Word(Txt2, 400), Word(Txt10, 480), Word(Txt4800, 560)}

\* the words of a set, right to left (pdfplumber fixes no order inside a
\* row; the parser sorts)
RECURSIVE RightToLeft(_)
RightToLeft(ws) ==
    IF ws = {} THEN <<>>
    ELSE LET w == CHOOSE x \in ws : \A y \in ws : y.x0 <= x.x0
         IN  <<w>> \o RightToLeft(ws \ {w})

\* rows: non-empty sets of page words that do not share a left edge
PageRows ==
    {RightToLeft(ws) : ws \in
        {r \in SUBSET PageWords :
            r # {} /\ \A a, b \in r : a # b => a.x0 # b.x0}}

\* Words of the row-level specification: left edges on both sides of every
\* band boundary
RowWords ==
    {Word(Txt0501, 30), Word(Txt0501, 61), Word(TxtDate, 30),
     Word(TxtNarration, 61), Word(TxtUPI, 60), Word(TxtUPI, 249),
     Word(TxtUPI, 250), Word(Txt0501, 330), Word(Txt2, 389), Word(Txt2, 390),
     Word(Txt10, 470), Word(Txt4800, 549), Word(Txt4800, 550)}

RowInputs == UNION {[1..n -> RowWords] : n \in 1..MaxRowWords}

\* Inputs of the scorer: buckets of a monthly summary and a closing balance
ScoreCredits == {0, 300, 500}
ScoreDebits == {0, 350}
ScoreClosings == {0, 200, 400}

ScoreBuckets == [credit : ScoreCredits, debit : ScoreDebits]
ScoreMonthlies == UNION {[1..n -> ScoreBuckets] : n \in 0..MaxMonths}

-----------------------------------------------------------------------------
(* Idle values of the variables a specification does not use *)

PipeIdle ==
    /\ pc = "idle" /\ nrows = 0 /\ transactions = <<>>
    /\ raised = <<>> /\ result = <<>>

RowIdle ==
    /\ rpc = "idle" /\ row_words = <<>> /\ wi = 0
    /\ bands = EmptyBands /\ assigned = <<>> /\ row_out = <<>>

ScoreIdle ==
    /\ sc_in = [summary |-> [closing_balance |-> 0], monthly |-> <<>>]
    /\ sc_out = <<>>

-----------------------------------------------------------------------------
(* Spec: one request through parse_hdfc_pdf and process_statement *)

Init ==
    /\ pc = "parsing" /\ nrows = 0 /\ transactions = <<>>
    /\ raised = <<>> /\ result = <<>>
    /\ RowIdle /\ ScoreIdle

\* parser.py:23-86  one iteration of the row loop
ParseRow ==
    /\ pc = "parsing"
    /\ nrows < MaxRows
    /\ \E row \in PageRows :
          transactions' = transactions \o ParseRowWords(row)
    /\ nrows' = nrows + 1
    /\ UNCHANGED <<pc, raised, result, rowVars, scoreVars>>

\* parser.py:89-90  return the frame
ParseReturn ==
    /\ pc = "parsing"
    /\ pc' = "parsed"
    /\ UNCHANGED <<nrows, transactions, raised, result, rowVars, scoreVars>>

\* main.py:126-127  raise HTTPException(400, "No transactions detected.")
RaiseEmpty ==
    /\ pc = "parsed"
    /\ DfEmpty(transactions)
    /\ raised' = <<NoTransactionsDetected>>
    /\ pc' = "failed"
    /\ UNCHANGED <<nrows, transactions, result, rowVars, scoreVars>>

\* main.py:129-154  sort, reconstruct, summarise, score, return
DeriveAndReturn ==
    /\ pc = "parsed"
    /\ ~DfEmpty(transactions)
    /\ \E p \in SortValuesOutcomes(transactions) :
          IF Len(transactions) = 0
          THEN /\ raised' = <<IndexErrorRaised>>
               /\ pc' = "failed"
               /\ UNCHANGED result
          ELSE /\ result' = <<Derive(transactions, p)>>
               /\ pc' = "done"
               /\ UNCHANGED raised
    /\ UNCHANGED <<nrows, transactions, rowVars, scoreVars>>

Next == ParseRow \/ ParseReturn \/ RaiseEmpty \/ DeriveAndReturn

Spec == Init /\ [][Next]_vars

-----------------------------------------------------------------------------
(* SpecRow: the body of the row loop, word by word *)

InitRow ==
    /\ rpc = "start"
    /\ row_words \in RowInputs
    /\ wi = 0 /\ bands = EmptyBands /\ assigned = <<>> /\ row_out = <<>>
    /\ PipeIdle /\ ScoreIdle

\* parser.py:26-47
StartRow ==
    /\ rpc = "start"
    /\ LET sorted == SortByX0(row_words)
       IN  /\ row_words' = sorted
           /\ rpc' = IF IsHeaderRow(sorted) THEN "skipped"
                     ELSE IF ~LooksLikeDate(sorted[1].text) THEN "skipped"
                     ELSE IF Strptime(sorted[1].text).error # "" THEN "rejected"
                     ELSE "classify"
    /\ wi' = 1
    /\ UNCHANGED <<bands, assigned, row_out, pipeVars, scoreVars>>

\* parser.py:49-69  one word of the row
ClassifyNext ==
    /\ rpc = "classify"
    /\ wi <= Len(row_words)
    /\ bands' = ClassifyWord(bands, row_words[wi])
    /\ assigned' = Append(assigned, {f \in BandNames : bands'[f] # bands[f]})
    /\ wi' = wi + 1
    /\ UNCHANGED <<rpc, row_words, row_out, pipeVars, scoreVars>>

\* parser.py:71-86
FinishRow ==
    /\ rpc = "classify"
    /\ wi > Len(row_words)
    /\ row_out' = BuildTransaction(Strptime(row_words[1].text), bands)
    /\ rpc' = IF row_out' = <<>> THEN "rejected" ELSE "appended"
    /\ UNCHANGED <<row_words, wi, bands, assigned, pipeVars, scoreVars>>

NextRow == StartRow \/ ClassifyNext \/ FinishRow

SpecRow == InitRow /\ [][NextRow]_vars

-----------------------------------------------------------------------------
(* SpecScore: generate_loan_readiness applied to two monthly summaries and  *)
(* one summary                                                             *)

InitScore ==
    /\ sc_in \in [summary : [closing_balance : ScoreClosings],
                  monthly : [1..2 -> ScoreMonthlies]]
    /\ sc_out = <<>>
    /\ PipeIdle /\ RowIdle

Score ==
    /\ Len(sc_out) < 2
    /\ sc_out' = Append(sc_out,
                   generate_loan_readiness(sc_in.summary,
                                           sc_in.monthly[Len(sc_out) + 1]))
    /\ UNCHANGED <<sc_in, pipeVars, rowVars>>

NextScore == Score

SpecScore == InitScore /\ [][NextScore]_vars

-----------------------------------------------------------------------------
(* Claims about process_statement (Spec) *)

Returned == result[1]

\* C1: when extraction yields no transaction, process_statement raises the
\* explicit "No transactions detected." failure and returns nothing; whatever
\* it returns was computed from a non-empty ledger.
C1_EmptyLedgerFails ==
    /\ (pc \in {"failed", "done"} /\ transactions = <<>>)
          => (pc = "failed" /\ raised = <<NoTransactionsDetected>> /\ result = <<>>)
    /\ result # <<>> => (Len(Returned.df) > 0 /\ raised = <<>>)

C1_Witness ==
    pc = "failed" /\ nrows = MaxRows /\ raised = <<NoTransactionsDetected>>

\* C2: with T the first row of the sorted frame, opening_balance + T.credit =
\* T.balance when T.credit > 0, and opening_balance - T.debit = T.balance
\* otherwise.
C2_OpeningBalance ==
    pc = "done" =>
        LET first == Returned.df[1]
            opening_balance == Returned.summary.opening_balance
        IN  IF first.credit > 0
            THEN opening_balance + first.credit = first.balance
            ELSE opening_balance - first.debit = first.balance

C2_Witness ==
    /\ pc = "done"
    /\ Returned.indexer[1] # 1
    /\ Returned.df[1].credit > 0
    /\ Returned.df[1].debit > 0
    /\ Returned.summary.opening_balance + Returned.df[1].credit
          = Returned.df[1].balance

\* sum of f over the rows of df whose month is m, by index
RECURSIVE MonthTotal(_, _, _, _)
MonthTotal(df, m, f, i) ==
    IF i = 0 THEN 0
    ELSE (IF df[i].date.year * 100 + df[i].date.month = m THEN df[i][f] ELSE 0)
         + MonthTotal(df, m, f, i - 1)

\* C3: the buckets' credits sum to the summary's total credit and their debits
\* to its total debit; every row's (year, month) has exactly one bucket, and
\* that bucket holds the sums over exactly the rows of that month.
C3_MonthlyTotals ==
    pc = "done" =>
        LET df == Returned.df
            ms == Returned.monthly_summary
        IN  /\ SumField(ms, "credit") = Returned.summary.total_income
            /\ SumField(ms, "debit") = Returned.summary.total_expense
            /\ \A i \in 1..Len(df) :
                  Cardinality({b \in 1..Len(ms) :
                      ms[b].month = df[i].date.year * 100 + df[i].date.month}) = 1
            /\ \A b \in 1..Len(ms) :
                  /\ ms[b].credit = MonthTotal(df, ms[b].month, "credit", Len(df))
                  /\ ms[b].debit = MonthTotal(df, ms[b].month, "debit", Len(df))

C3_Witness ==
    /\ pc = "done"
    /\ Len(Returned.monthly_summary) = 2
    /\ Returned.monthly_summary[1].credit > 0
    /\ Returned.monthly_summary[2].credit > 0
    /\ Returned.monthly_summary[2].debit > 0
    /\ Returned.summary.total_income
          = Returned.monthly_summary[1].credit + Returned.monthly_summary[2].credit

\* C4: the sorted ledger is ascending by date, and rows with the same date keep
\* the relative order in which the extractor emitted them.
C4_StableSort ==
    pc = "done" =>
        LET df == Returned.df
            p  == Returned.indexer
        IN  /\ \A i \in 1..(Len(df) - 1) :
                  DateKey(df[i].date) <= DateKey(df[i + 1].date)
            /\ \A i, j \in 1..Len(df) :
                  (i < j /\ DateKey(df[i].date) = DateKey(df[j].date)
                         /\ df[i] # df[j])
                      => p[i] < p[j]

\* balance of the last transaction of a day in extraction order
LastOfDayInStatement(txns, day) ==
    LET last == CHOOSE i \in 1..Len(txns) :
                    /\ DateKey(txns[i].date) = day
                    /\ \A j \in (i + 1)..Len(txns) : DateKey(txns[j].date) # day
    IN  txns[last].balance

RECURSIVE SumLastOfDay(_, _)
SumLastOfDay(txns, days) ==
    IF days = {} THEN 0
    ELSE LET d == CHOOSE x \in days : TRUE
         IN  LastOfDayInStatement(txns, d) + SumLastOfDay(txns, days \ {d})

\* C5: avg_balance is the mean, over the distinct days of the ledger, of the
\* balance of the day's last transaction in statement (extraction) order.
C5_AvgBalanceDailyLast ==
    pc = "done" =>
        LET days == {DateKey(transactions[i].date) : i \in 1..Len(transactions)}
        IN  Returned.summary.avg_balance
                = Round2(SumLastOfDay(transactions, days), Cardinality(days))

\* C9: every transaction of the ledger has debit >= 0, credit >= 0 and exactly
\* one of the two nonzero.
C9_OneSidedAmounts ==
    \A i \in 1..Len(transactions) :
        /\ transactions[i].debit >= 0
        /\ transactions[i].credit >= 0
        /\ (transactions[i].debit # 0) # (transactions[i].credit # 0)

-----------------------------------------------------------------------------
(* Claims about the row loop (SpecRow) *)

\* C8 as stated: every word of a candidate row is appended to exactly one of
\* the six bands.
C8_EveryWordOneBand ==
    \A i \in 1..Len(assigned) : Cardinality(assigned[i]) = 1

\* C8 as amended: no word is appended to two bands; a word whose left edge is
\* greater than 60 is appended to exactly one band, and a word whose left edge
\* is 60 or less (the date column) to none.
C8_BandsRightOfDateColumn ==
    \A i \in 1..Len(assigned) :
        /\ Cardinality(assigned[i]) <= 1
        /\ (row_words[i].x0 > 60) <=> (Cardinality(assigned[i]) = 1)

C8_Witness ==
    /\ rpc = "appended"
    /\ Len(assigned) = Len(row_words)
    /\ \E i, j \in 1..Len(assigned) :
          /\ row_words[i].x0 = 60 /\ assigned[i] = {}
          /\ row_words[j].x0 = 250 /\ assigned[j] = {"ref_no"}

-----------------------------------------------------------------------------
(* Claims about generate_loan_readiness (SpecScore) *)

Scored(i) == Len(sc_out) >= i
NumBuckets(i) == Len(sc_in.monthly[i])
Income(i) == SumField(sc_in.monthly[i], "credit")
Expense(i) == SumField(sc_in.monthly[i], "debit")

\* means as fractions; the mean of no bucket is 0
Den(i) == IF NumBuckets(i) = 0 THEN 1 ELSE NumBuckets(i)
SameAvgExpense(i, j) == Expense(i) * Den(j) = Expense(j) * Den(i)
LargerAvgIncome(i, j) == Income(j) * Den(i) > Income(i) * Den(j)

\* C6 as stated: same avg_expense and closing_balance, larger avg_income in
\* the second input: its total score is not smaller.
C6_MonotoneInIncome ==
    \A i, j \in 1..2 :
        (Scored(i) /\ Scored(j) /\ SameAvgExpense(i, j) /\ LargerAvgIncome(i, j))
            => sc_out[j].loan_score >= sc_out[i].loan_score

\* C6 as amended: same avg_expense, closing_balance and stability_score, larger
\* avg_income in the second input: its total score is not smaller.
C6_MonotoneAtEqualStability ==
    \A i, j \in 1..2 :
        (/\ Scored(i) /\ Scored(j)
         /\ SameAvgExpense(i, j) /\ LargerAvgIncome(i, j)
         /\ sc_out[i].stability_score = sc_out[j].stability_score)
            => sc_out[j].loan_score >= sc_out[i].loan_score

C6_Witness ==
    /\ Scored(2)
    /\ NumBuckets(1) = 2 /\ NumBuckets(2) = 2
    /\ SameAvgExpense(1, 2) /\ LargerAvgIncome(1, 2)
    /\ Expense(1) > 0
    /\ sc_out[1].stability_score = 30 /\ sc_out[2].stability_score = 30
    /\ sc_out[2].loan_score > sc_out[1].loan_score

\* C7: the total is the sum of the three sub-scores, lies in 15..100, and the
\* rating follows the inclusive thresholds 80, 60, 40.
C7_ScoreAndRating ==
    \A i \in 1..Len(sc_out) :
        LET o == sc_out[i]
        IN  /\ o.loan_score = o.surplus_score + o.stability_score + o.balance_score
            /\ o.loan_score >= 15 /\ o.loan_score <= 100
            /\ o.loan_score >= 80 => o.rating = "Strong"
            /\ (o.loan_score >= 60 /\ o.loan_score < 80) => o.rating = "Moderate"
            /\ (o.loan_score >= 40 /\ o.loan_score < 60) => o.rating = "Risky"
            /\ o.loan_score < 40 => o.rating = "High Risk"

C7_Witness ==
    /\ Scored(2)
    /\ sc_out[1].loan_score = 60 /\ sc_out[1].rating = "Moderate"
    /\ sc_out[2].loan_score = 40 /\ sc_out[2].rating = "Risky"

\* C10: a monthly summary of exactly one bucket gets stability_score 5, a total
\* of at most 75 and never the rating "Strong".
C10_SingleMonthStability ==
    \A i \in 1..Len(sc_out) :
        NumBuckets(i) = 1 =>
            /\ sc_out[i].stability_score = 5
            /\ sc_out[i].loan_score <= 75
            /\ sc_out[i].rating # "Strong"

C10_Witness ==
    /\ Scored(1)
    /\ NumBuckets(1) = 1
    /\ Income(1) > 0
    /\ sc_out[1].stability_score = 5
    /\ sc_out[1].loan_score = 75

====
